---- MODULE Spec2Model ----
(***************************************************************************)
(* Water-filling power allocation of Waterfilling_GNN.ipynb:               *)
(*   waterfilling_backtracking  (active-set elimination),                  *)
(*   waterfilling_bisection     (bracketed search on the water level),     *)
(*   compute_weighted_rate      (weighted-sum-rate evaluator).             *)
(*                                                                         *)
(* Tensor entries are modelled as exact rationals n/d extended with the    *)
(* IEEE values +inf, -inf and nan (d = 0), so the arithmetic is the exact  *)
(* arithmetic of the algorithm; float32 rounding is not modelled.          *)
(***************************************************************************)
EXTENDS Integers, Sequences, FiniteSets

\* ---------------------------------------------------------------- bounds
MaxUsers == 3
MaxWeight == 2
MaxGain == 3
AnyMaxUsers == 2

\* ------------------------------------------------- extended rational values
RECURSIVE GCD(_, _)
GCD(a, b) == IF b = 0 THEN a ELSE GCD(b, a % b)

Abs(k) == IF k < 0 THEN -k ELSE k

Sign(k) == IF k < 0 THEN -1 ELSE IF k > 0 THEN 1 ELSE 0

\* n/d in lowest terms with d > 0; d = 0 encodes +inf (n = 1), -inf (n = -1), nan (n = 0)
Rat(n, d) ==
    IF d = 0 THEN [n |-> Sign(n), d |-> 0]
    ELSE LET g == GCD(Abs(n), Abs(d))
         IN  [n |-> (Sign(d) * n) \div g, d |-> Abs(d) \div g]

FromInt(k) == [n |-> k, d |-> 1]

Zero == FromInt(0)

One == FromInt(1)

NaN == [n |-> 0, d |-> 0]

IsNaN(x) == x.d = 0 /\ x.n = 0

IsInf(x) == x.d = 0 /\ x.n # 0

Finite(x) == x.d > 0

Neg(x) == [n |-> -x.n, d |-> x.d]

Add(x, y) ==
    IF IsNaN(x) \/ IsNaN(y) THEN NaN
    ELSE IF IsInf(x) THEN (IF IsInf(y) /\ y.n # x.n THEN NaN ELSE x)
    ELSE IF IsInf(y) THEN y
    ELSE Rat(x.n * y.d + y.n * x.d, x.d * y.d)

Sub(x, y) == Add(x, Neg(y))

Mul(x, y) == Rat(x.n * y.n, x.d * y.d)

Div(x, y) ==
    IF IsInf(x) /\ Finite(y) /\ y.n < 0 THEN Neg(x)
    ELSE Rat(x.n * y.d, x.d * y.n)

\* a/b against c/d for a, c >= 0 and b, d > 0, by continued-fraction expansion
\* (no products, so 1e-9 is compared without leaving the integer range)
RECURSIVE CmpPos(_, _, _, _)
CmpPos(a, b, c, d) ==
    LET q1 == a \div b
        q2 == c \div d
        r1 == a % b
        r2 == c % d
    IN  IF q1 < q2 THEN -1
        ELSE IF q1 > q2 THEN 1
        ELSE IF r1 = 0 /\ r2 = 0 THEN 0
        ELSE IF r1 = 0 THEN -1
        ELSE IF r2 = 0 THEN 1
        ELSE CmpPos(d, r2, b, r1)

\* -1, 0, 1 for x < y, x = y, x > y; x and y are not nan
Cmp(x, y) ==
    IF x = y THEN 0
    ELSE IF IsInf(x) THEN x.n
    ELSE IF IsInf(y) THEN -y.n
    ELSE IF x.n < 0 /\ y.n >= 0 THEN -1
    ELSE IF x.n >= 0 /\ y.n < 0 THEN 1
    ELSE IF x.n >= 0 THEN CmpPos(x.n, x.d, y.n, y.d)
    ELSE CmpPos(-y.n, y.d, -x.n, x.d)

\* comparisons with nan are false, as in IEEE arithmetic
Lt(x, y) == ~IsNaN(x) /\ ~IsNaN(y) /\ Cmp(x, y) = -1

Le(x, y) == ~IsNaN(x) /\ ~IsNaN(y) /\ Cmp(x, y) # 1

Gt(x, y) == Lt(y, x)

Ge(x, y) == Le(y, x)

\* torch.maximum propagates nan
Maximum(x, y) == IF IsNaN(x) \/ IsNaN(y) THEN NaN ELSE IF Lt(x, y) THEN y ELSE x

\* torch.sum of a one-dimensional tensor
RECURSIVE TorchSum(_)
TorchSum(t) == IF t = <<>> THEN Zero ELSE Add(TorchSum(SubSeq(t, 1, Len(t) - 1)), t[Len(t)])

RECURSIVE IntSum(_)
IntSum(t) == IF t = <<>> THEN 0 ELSE IntSum(SubSeq(t, 1, Len(t) - 1)) + t[Len(t)]

\* ------------------------------------------------------- program constants
\* total_power = 1 in both solvers
total_power == One

\* the margin added to the upper water level
margin == Rat(1, 10)

\* default of the parameter epsilon
default_epsilon == Rat(1, 1000000)

\* ------------------------------------------------------------ input sets
Weights == {FromInt(k) : k \in 1..MaxWeight}

Gains == {Rat(n, d) : n \in {1, MaxGain}, d \in {1, 2, MaxGain}}

Epsilons == {Rat(1, 1000000000), default_epsilon, FromInt(5)}

AnyWeights == Weights \cup {FromInt(0), FromInt(-1)}

AnyGains == Gains \cup {FromInt(0), FromInt(-1)}

AnyEpsilons == Epsilons \cup {FromInt(0), FromInt(-1)}

AnyPowers == {FromInt(-2), Rat(-1, 2), Zero, One}

Tensors(S, lo, hi) == UNION {[1..k -> S] : k \in lo..hi}

ValidCall(w, g) ==
    /\ Len(w) = Len(g)
    /\ Len(w) >= 1
    /\ \A u \in 1..Len(w) : Gt(w[u], Zero) /\ Finite(w[u])
    /\ \A u \in 1..Len(g) : Gt(g[u], Zero) /\ Finite(g[u])

\* ------------------------------------------------------------------ state
VARIABLES
    domain,           \* "valid": calls satisfy the preconditions; "any": they need not
    user_weights,     \* argument user_weights
    channel_gains,    \* argument channel_gains
    pc,               \* position of the caller / the running function
    I_u,              \* backtracking: indicator of the users with non-zero power
    inv_mu,           \* backtracking: trial water level
    allocated_power,  \* local allocated_power of the running function (or argument of the evaluator)
    iters,            \* backtracking: number of loop bodies executed
    epsilon,          \* bisection: argument epsilon
    mu_min,           \* bisection: lower end of the bracket
    mu_max,           \* bisection: upper end of the bracket
    mu,               \* bisection: midpoint
    power_sum,        \* bisection: sum of the allocation at the midpoint
    p_bt,             \* outcome of waterfilling_backtracking
    p_bs,             \* outcome of waterfilling_bisection
    rate              \* outcome of compute_weighted_rate

vars == <<domain, user_weights, channel_gains, pc, I_u, inv_mu, allocated_power, iters,
          epsilon, mu_min, mu_max, mu, power_sum, p_bt, p_bs, rate>>

\* a local name that has not been assigned yet
Unbound == [bound |-> FALSE, val |-> <<>>]

Bound(t) == [bound |-> TRUE, val |-> t]

\* outcomes of a call
NotCalled == [kind |-> "not called", val |-> <<>>]

Returned(t) == [kind |-> "tensor", val |-> t]

ReturnedNone == [kind |-> "None", val |-> <<>>]

Raised(e) == [kind |-> e, val |-> <<>>]

N == Len(user_weights)

\* -------------------------------------------------- waterfilling_backtracking
\* 1/channel_gains
InvGains(g) == [u \in 1..Len(g) |-> Div(One, g[u])]

\* line 66 with the indicator dropped from the gain sum
InvMu_unmaskedGains(I, w, g) ==
    Div(Add(total_power, TorchSum([u \in 1..Len(I) |-> Div(One, g[u])])),
        TorchSum([u \in 1..Len(I) |-> Mul(FromInt(I[u]), w[u])]))

\* line 66 with the indicator dropped from the weight sum
InvMu_unmaskedWeights(I, w, g) ==
    Div(Add(total_power, TorchSum([u \in 1..Len(I) |-> Div(Mul(FromInt(I[u]), One), g[u])])),
        TorchSum([u \in 1..Len(I) |-> w[u]]))

\* line 66: (total_power + sum(I_u * 1/channel_gains)) / sum(I_u * user_weights)
InvMu(I, w, g) ==
    Div(Add(total_power, TorchSum([u \in 1..Len(I) |-> Div(Mul(FromInt(I[u]), One), g[u])])),
        TorchSum([u \in 1..Len(I) |-> Mul(FromInt(I[u]), w[u])]))

\* line 67: I_u * (user_weights*inv_mu - 1/channel_gains)
TrialAllocation(I, w, g, m) ==
    [u \in 1..Len(I) |-> Mul(FromInt(I[u]), Sub(Mul(w[u], m), Div(One, g[u])))]

\* line 69 with the comparison reversed
Sinactive_gt(p) == {u \in 1..Len(p) : Gt(p[u], Zero)}

\* line 69: torch.where(allocated_power < 0)[0]
Sinactive(p) == {u \in 1..Len(p) : Lt(p[u], Zero)}

\* line 72 rebuilding the indicator from the current round only
Deactivate_reset(I, S) == [u \in 1..Len(I) |-> IF u \in S THEN 0 ELSE 1]

\* line 72: I_u[Sinactive] = 0
Deactivate(I, S) == [u \in 1..Len(I) |-> IF u \in S THEN 0 ELSE I[u]]

\* lines 61-64: entry of the function
waterfilling_backtracking ==
    /\ pc = "idle"
    /\ I_u' = [u \in 1..N |-> 1]
    /\ allocated_power' = Unbound
    /\ iters' = 0
    /\ pc' = "bt_while"
    /\ UNCHANGED <<domain, user_weights, channel_gains, inv_mu, epsilon, mu_min, mu_max, mu,
                   power_sum, p_bt, p_bs, rate>>

\* line 65: while torch.sum(I_u) > 0
bt_while ==
    /\ pc = "bt_while"
    /\ pc' = IF IntSum(I_u) > 0 THEN "bt_body" ELSE "bt_return"
    /\ UNCHANGED <<domain, user_weights, channel_gains, I_u, inv_mu, allocated_power, iters,
                   epsilon, mu_min, mu_max, mu, power_sum, p_bt, p_bs, rate>>

\* lines 66-72: one loop body
bt_body ==
    /\ pc = "bt_body"
    /\ LET m == InvMu(I_u, user_weights, channel_gains)
           p == TrialAllocation(I_u, user_weights, channel_gains, m)
           S == Sinactive(p)
       IN  /\ inv_mu' = m
           /\ allocated_power' = Bound(p)
           /\ IF S = {}
              THEN /\ pc' = "bt_return"
                   /\ I_u' = I_u
              ELSE /\ pc' = "bt_while"
                   /\ I_u' = Deactivate(I_u, S)
    /\ iters' = iters + 1
    /\ UNCHANGED <<domain, user_weights, channel_gains, epsilon, mu_min, mu_max, mu,
                   power_sum, p_bt, p_bs, rate>>

\* line 73: return allocated_power
bt_return ==
    /\ pc = "bt_return"
    /\ p_bt' = IF allocated_power.bound THEN Returned(allocated_power.val)
               ELSE Raised("UnboundLocalError")
    /\ pc' = "bt_done"
    /\ UNCHANGED <<domain, user_weights, channel_gains, I_u, inv_mu, allocated_power, iters,
                   epsilon, mu_min, mu_max, mu, power_sum, p_bs, rate>>

\* ----------------------------------------------------- waterfilling_bisection
\* line 80: (total_power + sum(1/channel_gains))/sum(user_weights) + 0.1
MuMaxInit(w, g) == Add(Div(Add(total_power, TorchSum(InvGains(g))), TorchSum(w)), margin)

\* line 84: (mu_min+mu_max) / 2
Midpoint(lo, hi) == Div(Add(lo, hi), FromInt(2))

\* line 85 without the clipping at zero
ClippedAllocation_unclipped(w, g, m) ==
    [u \in 1..Len(w) |-> Sub(Mul(w[u], m), Div(One, g[u]))]

\* line 85: torch.maximum(torch.zeros(num_users), user_weights*mu - 1/channel_gains)
ClippedAllocation(w, g, m) ==
    [u \in 1..Len(w) |-> Maximum(Zero, Sub(Mul(w[u], m), Div(One, g[u])))]

\* lines 77-81: entry of the function, called on the arguments of the backtracking call
waterfilling_bisection ==
    /\ pc = "bt_done"
    /\ \E e \in (IF domain = "valid" THEN Epsilons ELSE AnyEpsilons) : epsilon' = e
    /\ mu_min' = Zero
    /\ mu_max' = MuMaxInit(user_weights, channel_gains)
    /\ allocated_power' = Unbound
    /\ pc' = "bs_while"
    /\ UNCHANGED <<domain, user_weights, channel_gains, I_u, inv_mu, iters, mu, power_sum,
                   p_bt, p_bs, rate>>

\* line 83: while mu_max - mu_min > epsilon; when the condition is false the
\* function body ends without a return statement, so the call yields None
bs_while ==
    /\ pc = "bs_while"
    /\ IF Gt(Sub(mu_max, mu_min), epsilon)
       THEN /\ pc' = "bs_body"
            /\ p_bs' = p_bs
       ELSE /\ pc' = "bs_done"
            /\ p_bs' = ReturnedNone
    /\ UNCHANGED <<domain, user_weights, channel_gains, I_u, inv_mu, allocated_power, iters,
                   epsilon, mu_min, mu_max, mu, power_sum, p_bt, rate>>

\* lines 84-93: the loop body, which ends with return allocated_power
bs_body ==
    /\ pc = "bs_body"
    /\ LET m == Midpoint(mu_min, mu_max)
           p == ClippedAllocation(user_weights, channel_gains, m)
           s == TorchSum(p)
       IN  /\ mu' = m
           /\ allocated_power' = Bound(p)
           /\ power_sum' = s
           /\ IF Le(s, total_power)
              THEN mu_min' = m /\ mu_max' = mu_max
              ELSE mu_max' = m /\ mu_min' = mu_min
           /\ p_bs' = Returned(p)
    /\ pc' = "bs_done"
    /\ UNCHANGED <<domain, user_weights, channel_gains, I_u, inv_mu, iters, epsilon, p_bt, rate>>

\* ----------------------------------------------------- compute_weighted_rate
\* line 253: SNR = channel_gains * allocated_power
SNR(g, p) == [u \in 1..Len(g) |-> Mul(g[u], p[u])]

\* lines 252-256; the argument is the allocation of the backtracking solver
\* (lines 279-281) or, at pc = "rate_call", the allocation the caller supplied.
\* No statement of the function raises; the value of sum(w * log2(1+SNR)) is
\* represented by the SNR tensor it is computed from.
compute_weighted_rate ==
    /\ \/ pc = "bt_done" /\ p_bt.kind = "tensor"
       \/ pc = "rate_call"
    /\ LET p == IF pc = "rate_call" THEN allocated_power.val ELSE p_bt.val
       IN  rate' = [kind |-> "float", val |-> SNR(channel_gains, p)]
    /\ pc' = "rate_done"
    /\ UNCHANGED <<domain, user_weights, channel_gains, I_u, inv_mu, allocated_power, iters,
                   epsilon, mu_min, mu_max, mu, power_sum, p_bt, p_bs>>

\* --------------------------------------------------------- specifications
InitLocals ==
    /\ I_u = <<>>
    /\ inv_mu = Zero
    /\ iters = 0
    /\ epsilon = default_epsilon
    /\ mu_min = Zero
    /\ mu_max = Zero
    /\ mu = Zero
    /\ power_sum = Zero
    /\ p_bt = NotCalled
    /\ p_bs = NotCalled
    /\ rate = NotCalled

\* calls that satisfy the preconditions
Init ==
    /\ domain = "valid"
    /\ user_weights \in Tensors(Weights, 1, MaxUsers)
    /\ channel_gains \in [1..Len(user_weights) -> Gains]
    /\ pc = "idle"
    /\ allocated_power = Unbound
    /\ InitLocals

\* calls that may violate the preconditions
InitAny ==
    /\ domain = "any"
    /\ user_weights \in Tensors(AnyWeights, 0, AnyMaxUsers)
    /\ channel_gains \in [1..Len(user_weights) -> AnyGains]
    /\ \/ pc = "idle" /\ allocated_power = Unbound
       \/ /\ pc = "rate_call"
          /\ \E p \in [1..Len(user_weights) -> AnyPowers] : allocated_power = Bound(p)
    /\ InitLocals

Next ==
    \/ waterfilling_backtracking
    \/ bt_while
    \/ bt_body
    \/ bt_return
    \/ waterfilling_bisection
    \/ bs_while
    \/ bs_body
    \/ compute_weighted_rate

Spec == Init /\ [][Next]_vars

SpecAny == InitAny /\ [][Next]_vars

TypeOK ==
    /\ pc \in {"idle", "bt_while", "bt_body", "bt_return", "bt_done", "bs_while", "bs_body",
               "bs_done", "rate_call", "rate_done"}
    /\ Len(channel_gains) = Len(user_weights)

\* ------------------------------------------------------------- properties
Active(I) == {u \in 1..Len(I) : I[u] = 1}

\* weight_u * m - 1/gain_u, the unclipped allocation of agent u at water level m
Linear(u, m) == Sub(Mul(user_weights[u], m), Div(One, channel_gains[u]))

BtReturned == p_bt.kind = "tensor"

BsReturned == p_bs.kind = "tensor"

AllZero(t) == \A u \in 1..Len(t) : t[u] = Zero

RatAbs(x) == IF x.n < 0 THEN Neg(x) ELSE x

\* C1: for every valid input the allocation returned by waterfilling_backtracking
\* sums exactly to the budget, unless it is the all-zero allocation.
C1_BudgetExhaustion ==
    (ValidCall(user_weights, channel_gains) /\ p_bt.kind # "not called")
        => /\ BtReturned
           /\ Len(p_bt.val) = N
           /\ AllZero(p_bt.val) \/ TorchSum(p_bt.val) = total_power

\* a returned allocation that excludes an agent and still sums to the budget
C1_Witness ==
    /\ BtReturned
    /\ \E u \in 1..N : I_u[u] = 0 /\ p_bt.val[u] = Zero
    /\ TorchSum(p_bt.val) = total_power

\* C2: every component of an allocation returned by either solver is >= 0.
C2_NonNegative ==
    /\ (ValidCall(user_weights, channel_gains) /\ BtReturned)
          => \A u \in 1..Len(p_bt.val) : Ge(p_bt.val[u], Zero)
    /\ (ValidCall(user_weights, channel_gains) /\ BsReturned)
          => \A u \in 1..Len(p_bs.val) : Ge(p_bs.val[u], Zero)

\* both solvers returned, and each clipped or excluded an agent whose linear
\* allocation is negative
C2_Witness ==
    /\ BtReturned
    /\ BsReturned
    /\ \E u \in 1..N : Lt(Linear(u, mu), Zero) /\ p_bs.val[u] = Zero
    /\ \E u \in 1..N : Lt(Linear(u, inv_mu), Zero) /\ p_bt.val[u] = Zero

\* C3: when waterfilling_bisection returns an allocation, the loop has exited:
\* mu_max - mu_min <= epsilon.
C3_ReturnsAfterConvergence ==
    (ValidCall(user_weights, channel_gains) /\ Gt(epsilon, Zero) /\ BsReturned)
        => Le(Sub(mu_max, mu_min), epsilon)

\* C4: the allocation returned by either solver sums to at most the budget.
C4_Feasible ==
    /\ (ValidCall(user_weights, channel_gains) /\ BtReturned)
          => Le(TorchSum(p_bt.val), total_power)
    /\ (ValidCall(user_weights, channel_gains) /\ Gt(epsilon, Zero) /\ BsReturned)
          => Le(TorchSum(p_bs.val), total_power)

\* an outcome that is a raised exception (the source defines no class
\* InvalidInputError; any exception is accepted as that outcome)
IsRaised(o) == o.kind \notin {"not called", "tensor", "None", "float"}

\* C5: a call that violates a precondition ends in a raised input error and
\* returns no allocation or rate.
C5_InvalidInputRaises ==
    /\ (p_bt.kind # "not called" /\ ~ValidCall(user_weights, channel_gains))
          => IsRaised(p_bt)
    /\ (p_bs.kind # "not called"
           /\ ~(ValidCall(user_weights, channel_gains) /\ Gt(epsilon, Zero)))
          => IsRaised(p_bs)
    /\ (rate.kind # "not called"
           /\ \E u \in 1..Len(allocated_power.val) : Lt(allocated_power.val[u], Zero))
          => IsRaised(rate)

\* C6: with epsilon = 1e-9 the allocation of waterfilling_bisection differs from
\* the allocation of waterfilling_backtracking by less than 1e-4 in every component.
C6_CrossSolverAgreement ==
    (ValidCall(user_weights, channel_gains) /\ BtReturned /\ BsReturned
        /\ epsilon = Rat(1, 1000000000))
        => \A u \in 1..N : Lt(RatAbs(Sub(p_bt.val[u], p_bs.val[u])), Rat(1, 10000))

\* C7: waterfilling_backtracking runs at most N loop bodies; a loop body that
\* does not leave the loop deactivates exactly the active agents whose trial
\* allocation is < 0, at least one of them, and no agent is ever reactivated.
C7_ShrinkingActiveSet ==
    /\ [](iters <= N)
    /\ [][ /\ (pc = "bt_body" /\ pc' = "bt_while")
                => /\ Active(I_u') = Active(I_u) \ {u \in Active(I_u) :
                                                       Lt(allocated_power'.val[u], Zero)}
                   /\ Active(I_u') # Active(I_u)
           /\ (pc \in {"bt_while", "bt_body", "bt_return"})
                => Active(I_u') \subseteq Active(I_u) ]_vars

\* the solver returned after two successive deactivation rounds
C7_Witness ==
    /\ BtReturned
    /\ iters = 3
    /\ Cardinality(Active(I_u)) = N - 2

\* C8: on return from waterfilling_backtracking, with mu the water level of the
\* final active set S (mu * sum_S weight = budget + sum_S 1/gain), every active
\* agent gets weight*mu - 1/gain >= 0 and every excluded agent gets 0 and has
\* weight*mu - 1/gain <= 0; the trial water level never increases.
C8_ClippedLinearRule ==
    /\ [](BtReturned =>
            /\ Mul(inv_mu, TorchSum([u \in 1..N |-> IF I_u[u] = 1 THEN user_weights[u] ELSE Zero]))
                 = Add(total_power,
                       TorchSum([u \in 1..N |-> IF I_u[u] = 1 THEN Div(One, channel_gains[u])
                                                ELSE Zero]))
            /\ \A u \in 1..N :
                 IF I_u[u] = 1
                 THEN p_bt.val[u] = Linear(u, inv_mu) /\ Ge(p_bt.val[u], Zero)
                 ELSE p_bt.val[u] = Zero /\ Le(Linear(u, inv_mu), Zero))
    /\ [][(pc = "bt_body" /\ iters >= 1) => Le(inv_mu', inv_mu)]_vars

\* the solver returned with an agent excluded in the first of two rounds
C8_Witness ==
    /\ BtReturned
    /\ iters >= 3
    /\ \E u \in 1..N : I_u[u] = 0 /\ Lt(Linear(u, inv_mu), Zero)
    /\ \E u \in 1..N : I_u[u] = 1 /\ Gt(p_bt.val[u], Zero)

\* C9: the active set is non-empty at every evaluation of the loop condition of
\* waterfilling_backtracking, so the loop is left only through the break, and the
\* returned value has no negative entry.
C9_ActiveSetNonEmpty ==
    /\ pc = "bt_while" => Active(I_u) # {}
    /\ pc = "bt_return"
          => /\ allocated_power.bound
             /\ \A u \in 1..N : ~Lt(allocated_power.val[u], Zero)
    /\ p_bt.kind # "not called"
          => BtReturned /\ \A u \in 1..N : ~Lt(p_bt.val[u], Zero)

\* the loop condition is evaluated after a deactivation
C9_Witness ==
    /\ pc = "bt_while"
    /\ iters >= 1
    /\ Active(I_u) # {}
    /\ Cardinality(Active(I_u)) < N

\* C10: for every valid input and every epsilon > 0 waterfilling_bisection
\* returns an allocation with exactly N entries.
C10_BisectionReturnsAllocation ==
    (ValidCall(user_weights, channel_gains) /\ Gt(epsilon, Zero) /\ pc = "bs_done")
        => BsReturned /\ Len(p_bs.val) = N

====
